---- MODULE Spec2Model ----
(***************************************************************************)
(* A model of the tag generator (src/src/main.rs): the identifier cleaner, *)
(* the builder of ParsedData, the XML generator and App::update.           *)
(*                                                                         *)
(* A Rust String is modelled as a sequence of characters, a character as a *)
(* one-character TLA+ string ("U+00E9" stands for the single character     *)
(* LATIN SMALL LETTER E WITH ACUTE, "U+00A0" for NO-BREAK SPACE).          *)
(***************************************************************************)
EXTENDS Integers, Sequences, FiniteSets, TLC

VARIABLES
    input_state,       \* App.input_state: [tag, attributes]
    has_parse_error,   \* App.has_parse_error
    clipboard,         \* App.clipboard: "None" or "Some"
    should_focus_tag,  \* App.should_focus_tag
    focus_next_frame,  \* App.focus_next_frame: an Option of a widget id
    focused,           \* egui memory: the widget id holding focus, or NoId
    close_threads,     \* spawned threads that have not yet sent Close
    viewport_closed,   \* a ViewportCommand::Close has been sent
    frame,             \* what the last call of App::update received and did
    call               \* the pure-function call under check: [fn, arg, ret]

vars == <<input_state, has_parse_error, clipboard, should_focus_tag,
          focus_next_frame, focused, close_threads, viewport_closed,
          frame, call>>

-----------------------------------------------------------------------------
(* Characters and the std library's character classes.                     *)

AsciiLower == {"a","b","c","d","e","f","g","h","i","j","k","l","m",
               "n","o","p","q","r","s","t","u","v","w","x","y","z"}
AsciiUpper == {"A","B","C","D","E","F","G","H","I","J","K","L","M",
               "N","O","P","Q","R","S","T","U","V","W","X","Y","Z"}
AsciiDigit == {"0","1","2","3","4","5","6","7","8","9"}

\* Non-ASCII characters with the Unicode Alphabetic property.
NonAsciiAlphabetic == {"U+00E9"}
\* Non-ASCII characters with the Unicode White_Space property.
NonAsciiWhitespace == {"U+00A0"}

QUOT == "\""
NL == "\n"

\* char::is_whitespace
is_whitespace(c) == c \in {" ", "\t", NL} \cup NonAsciiWhitespace

\* char::is_alphanumeric
is_alphanumeric(c) ==
    c \in AsciiLower \cup AsciiUpper \cup AsciiDigit \cup NonAsciiAlphabetic

\* The characters of [A-Za-z0-9_-].
AsciiIdentChar(c) ==
    c \in AsciiLower \cup AsciiUpper \cup AsciiDigit \cup {"_", "-"}

-----------------------------------------------------------------------------
(* String helpers of the std library.                                      *)

RECURSIVE SplitFrom(_, _, _, _)
SplitFrom(s, i, cur, acc) ==
    IF i > Len(s)
    THEN IF cur = <<>> THEN acc ELSE Append(acc, cur)
    ELSE IF is_whitespace(s[i])
         THEN SplitFrom(s, i + 1, <<>>,
                        IF cur = <<>> THEN acc ELSE Append(acc, cur))
         ELSE SplitFrom(s, i + 1, Append(cur, s[i]), acc)

\* str::split_whitespace: the maximal runs of non-whitespace, in order.
split_whitespace(s) == SplitFrom(s, 1, <<>>, <<>>)

RECURSIVE join(_, _)
\* [&str]::join
join(segs, sep) ==
    IF segs = <<>> THEN <<>>
    ELSE IF Len(segs) = 1 THEN segs[1]
    ELSE segs[1] \o sep \o join(Tail(segs), sep)

RECURSIVE trim_start(_)
trim_start(s) ==
    IF s # <<>> /\ is_whitespace(s[1]) THEN trim_start(Tail(s)) ELSE s

RECURSIVE trim_end(_)
trim_end(s) ==
    IF s # <<>> /\ is_whitespace(s[Len(s)])
    THEN trim_end(SubSeq(s, 1, Len(s) - 1))
    ELSE s

\* str::trim
trim(s) == trim_end(trim_start(s))

RECURSIVE replace(_, _, _)
\* str::replace of one character by a string
replace(s, from, to) ==
    IF s = <<>> THEN <<>>
    ELSE (IF s[1] = from THEN to ELSE <<s[1]>>) \o replace(Tail(s), from, to)

-----------------------------------------------------------------------------
(* clean_identifier                                                        *)

\* The closure passed to filter: |&c| c.is_alphanumeric() || c == '_' || c == '-'
keep_char(c) == is_alphanumeric(c) \/ c = "_" \/ c = "-"

RECURSIVE RemoveSkipping(_)
\* A removal loop that steps past the character following each removed one.
RemoveSkipping(s) ==
    IF s = <<>> THEN <<>>
    ELSE IF keep_char(s[1]) THEN <<s[1]>> \o RemoveSkipping(Tail(s))
    ELSE IF Len(s) = 1 THEN <<>>
    ELSE <<s[2]>> \o RemoveSkipping(Tail(Tail(s)))

clean_identifier_skipping(input) ==
    RemoveSkipping(join(split_whitespace(input), <<"_">>))

clean_identifier(input) ==
    LET replaced_whitespace == join(split_whitespace(input), <<"_">>)
    IN  SelectSeq(replaced_whitespace, keep_char)

-----------------------------------------------------------------------------
(* build_parsed_data and generate_xml                                      *)

None == <<"None">>
Some(v) == <<"Some", v>>

Ok(v) == [ok |-> TRUE, val |-> v]
Err(e) == [ok |-> FALSE, err |-> e]

EmptyTag == "Tag cannot be empty."
InvalidTagCharacters == "Tag contains invalid characters."
InvalidAttributeKey == "Attribute key contains invalid characters."

RECURSIVE BuildAttributes(_, _, _)
\* The for loop of build_parsed_data over input_state.attributes from row i,
\* with the attributes pushed so far.
BuildAttributes(rows, i, attributes) ==
    IF i > Len(rows) THEN Ok(attributes)
    ELSE LET key == rows[i][1]
             value == rows[i][2]
             cleaned_key == clean_identifier(key)
         IN  IF cleaned_key # <<>>
             THEN LET cleaned_value ==
                          IF trim(value) = <<>> THEN None ELSE Some(trim(value))
                  IN  BuildAttributes(rows, i + 1,
                          Append(attributes, <<cleaned_key, cleaned_value>>))
             ELSE IF trim(key) # <<>>
                  THEN Err(InvalidAttributeKey)
                  ELSE BuildAttributes(rows, i + 1, attributes)

RECURSIVE SkipInvalidKeys(_, _, _)
\* The loop with the rows of an invalid key ignored like the rows of an empty one.
SkipInvalidKeys(rows, i, attributes) ==
    IF i > Len(rows) THEN Ok(attributes)
    ELSE LET cleaned_key == clean_identifier(rows[i][1])
             value == rows[i][2]
         IN  IF cleaned_key # <<>>
             THEN SkipInvalidKeys(rows, i + 1,
                      Append(attributes,
                             <<cleaned_key,
                               IF trim(value) = <<>> THEN None ELSE Some(trim(value))>>))
             ELSE SkipInvalidKeys(rows, i + 1, attributes)

RECURSIVE ReplaceRepeatedKeys(_, _, _)
\* The loop with a repeated key's earlier attribute dropped.
ReplaceRepeatedKeys(rows, i, attributes) ==
    IF i > Len(rows) THEN Ok(attributes)
    ELSE LET cleaned_key == clean_identifier(rows[i][1])
             value == rows[i][2]
         IN  IF cleaned_key # <<>>
             THEN ReplaceRepeatedKeys(rows, i + 1,
                      Append(SelectSeq(attributes, LAMBDA a : a[1] # cleaned_key),
                             <<cleaned_key,
                               IF trim(value) = <<>> THEN None ELSE Some(trim(value))>>))
             ELSE IF trim(rows[i][1]) # <<>>
                  THEN Err(InvalidAttributeKey)
                  ELSE ReplaceRepeatedKeys(rows, i + 1, attributes)

\* build_parsed_data without the check of the cleaned tag.
build_unchecked_tag(state) ==
    IF trim(state.tag) = <<>> THEN Err(EmptyTag)
    ELSE LET attrs == BuildAttributes(state.attributes, 1, <<>>)
         IN  IF attrs.ok
             THEN Ok([tag |-> clean_identifier(state.tag), attributes |-> attrs.val])
             ELSE attrs

\* build_parsed_data with repeated keys merged.
build_merging_keys(state) ==
    IF trim(state.tag) = <<>> THEN Err(EmptyTag)
    ELSE LET tag == clean_identifier(state.tag)
         IN  IF tag = <<>> THEN Err(InvalidTagCharacters)
             ELSE LET attrs == ReplaceRepeatedKeys(state.attributes, 1, <<>>)
                  IN  IF attrs.ok
                      THEN Ok([tag |-> tag, attributes |-> attrs.val])
                      ELSE attrs

\* build_parsed_data with the rows looked at before the tag.
build_rows_first(state) ==
    LET attrs == BuildAttributes(state.attributes, 1, <<>>)
    IN  IF ~attrs.ok THEN attrs
        ELSE IF trim(state.tag) = <<>> THEN Err(EmptyTag)
        ELSE LET tag == clean_identifier(state.tag)
             IN  IF tag = <<>> THEN Err(InvalidTagCharacters)
                 ELSE Ok([tag |-> tag, attributes |-> attrs.val])

\* build_parsed_data with the rows of an invalid key skipped.
build_skipping_invalid(state) ==
    IF trim(state.tag) = <<>> THEN Err(EmptyTag)
    ELSE LET tag == clean_identifier(state.tag)
         IN  IF tag = <<>> THEN Err(InvalidTagCharacters)
             ELSE Ok([tag |-> tag,
                      attributes |-> SkipInvalidKeys(state.attributes, 1, <<>>).val])

build_parsed_data(state) ==
    IF trim(state.tag) = <<>> THEN Err(EmptyTag)
    ELSE LET tag == clean_identifier(state.tag)
         IN  IF tag = <<>> THEN Err(InvalidTagCharacters)
             ELSE LET attrs == BuildAttributes(state.attributes, 1, <<>>)
                  IN  IF attrs.ok
                      THEN Ok([tag |-> tag, attributes |-> attrs.val])
                      ELSE attrs

RECURSIVE AttributesString(_, _, _)
\* The for loop of generate_xml: attributes_string after the attributes from i.
AttributesString(attributes, i, attributes_string) ==
    IF i > Len(attributes) THEN attributes_string
    ELSE LET key == attributes[i][1]
             value_opt == attributes[i][2]
         IN  IF value_opt # None
             THEN LET escaped_value ==
                          replace(value_opt[2], QUOT, <<"&","q","u","o","t",";">>)
                  IN  AttributesString(attributes, i + 1,
                          attributes_string \o <<" ">> \o key \o <<"=", QUOT>>
                              \o escaped_value \o <<QUOT>>)
             ELSE AttributesString(attributes, i + 1,
                      attributes_string \o <<" ">> \o key)

\* generate_xml with the ampersand escaped too.
generate_xml_escaping_amp(data) ==
    <<"<">> \o data.tag
        \o replace(AttributesString(data.attributes, 1, <<>>), "&",
                   <<"&","a","m","p",";">>)
        \o <<">", NL, NL, "<", "/">> \o data.tag \o <<">">>

generate_xml(data) ==
    <<"<">> \o data.tag \o AttributesString(data.attributes, 1, <<>>)
        \o <<">", NL, NL, "<", "/">> \o data.tag \o <<">">>

-----------------------------------------------------------------------------
(* The state of App after App::new.                                        *)

NoId == <<"none">>
tag_field_id == <<"tag_field">>
attr_key(i) == <<"attr_key", i>>
attr_val(i) == <<"attr_val", i>>

NoFrame == [n |-> 0]

AppNew ==
    /\ input_state = [tag |-> <<>>, attributes |-> <<>>]
    /\ has_parse_error = FALSE
    /\ clipboard = "None"
    /\ should_focus_tag = TRUE
    /\ focus_next_frame = NoId
    /\ focused = NoId
    /\ close_threads = 0
    /\ viewport_closed = FALSE
    /\ frame = NoFrame

-----------------------------------------------------------------------------
(* App::update: one call is one frame.  The frame's inputs are the keys    *)
(* egui reports as pressed, whether a modifier is held, what the clipboard *)
(* answers, and what the widgets report while they are drawn.              *)

MaxRows == 2
MaxCloseThreads == 1

\* The texts the user gives the tag field, a key field and a value field.
UiTagTexts == { <<>>, <<"t">>, <<"?">> }
UiKeyTexts == { <<>>, <<"k">>, <<"!">> }
UiValTexts == { <<>>, <<"v">> }

NoText == <<"no text">>
NotBuilt == [ok |-> FALSE, err |-> "not attempted"]

TextFieldIds(attributes) ==
    {tag_field_id} \cup {attr_key(i) : i \in 0..(Len(attributes) - 1)}
                   \cup {attr_val(i) : i \in 0..(Len(attributes) - 1)}

\* The focus inspection before the input is handled (lines 142-158).
tag_focused(focused_id) == focused_id = tag_field_id

last_attr_value_focused(focused_id, attributes) ==
    LET last_attr_index == IF Len(attributes) = 0 THEN 0 ELSE Len(attributes) - 1
    IN  /\ focused_id # NoId
        /\ attributes # <<>>
        /\ focused_id = attr_val(last_attr_index)

\* The Tab branch without the inspection of the focus.
TabAddsAlways(st, focused_id, tab, mods) ==
    IF tab /\ ~mods
    THEN [attributes |-> Append(st.attributes, <<<<>>, <<>>>>),
          focus_next_frame |-> attr_key(Len(st.attributes)),
          has_parse_error |-> FALSE,
          added |-> TRUE]
    ELSE [attributes |-> st.attributes, focus_next_frame |-> st.focus_next_frame,
          has_parse_error |-> st.has_parse_error, added |-> FALSE]

\* The Tab branch of the input closure (lines 170-191) on
\* st = [attributes, focus_next_frame, has_parse_error].
HandleTab(st, focused_id, tab, mods) ==
    LET should_add_attribute ==
            \/ tag_focused(focused_id) /\ st.attributes = <<>>
            \/ last_attr_value_focused(focused_id, st.attributes)
    IN  IF tab /\ ~mods /\ should_add_attribute
        THEN [attributes |-> Append(st.attributes, <<<<>>, <<>>>>),
              focus_next_frame |-> attr_key(Len(st.attributes)),
              has_parse_error |-> FALSE,
              added |-> TRUE]
        ELSE [attributes |-> st.attributes,
              focus_next_frame |-> st.focus_next_frame,
              has_parse_error |-> st.has_parse_error,
              added |-> FALSE]

NotAsked == "not asked"

\* The Enter branch with the answer of set_text ignored.
HandleEnterIgnoringSetText(st, enter, mods, cb_new, set_text) ==
    LET cb == IF st.clipboard = "None" /\ cb_new = "Ok" THEN "Some" ELSE st.clipboard
        built == build_parsed_data(st.input_state)
        asked == IF st.clipboard = "None" THEN cb_new ELSE NotAsked
    IN  IF ~(enter /\ ~mods)
        THEN [input_state |-> st.input_state,
              clipboard |-> st.clipboard, has_parse_error |-> st.has_parse_error,
              built |-> NotBuilt, written |-> NoText, spawned |-> FALSE,
              clipboard_new |-> NotAsked, set_text |-> NotAsked]
        ELSE IF built.ok /\ cb = "Some"
        THEN [input_state |-> st.input_state,
              clipboard |-> "None", has_parse_error |-> FALSE, built |-> built,
              written |-> IF set_text = "Ok" THEN generate_xml(built.val) ELSE NoText,
              spawned |-> TRUE, clipboard_new |-> asked, set_text |-> set_text]
        ELSE [input_state |-> st.input_state,
              clipboard |-> cb, has_parse_error |-> TRUE,
              built |-> built, written |-> NoText, spawned |-> FALSE,
              clipboard_new |-> asked, set_text |-> NotAsked]

\* The Enter branch with the Err arm of the build (lines 240-243) left empty.
HandleEnterSilentOnBuildError(st, enter, mods, cb_new, set_text) ==
    LET cb == IF st.clipboard = "None" /\ cb_new = "Ok" THEN "Some" ELSE st.clipboard
        built == build_parsed_data(st.input_state)
        asked == IF st.clipboard = "None" THEN cb_new ELSE NotAsked
    IN  IF ~(enter /\ ~mods)
        THEN [input_state |-> st.input_state,
              clipboard |-> st.clipboard, has_parse_error |-> st.has_parse_error,
              built |-> NotBuilt, written |-> NoText, spawned |-> FALSE,
              clipboard_new |-> NotAsked, set_text |-> NotAsked]
        ELSE IF built.ok /\ cb = "Some" /\ set_text = "Ok"
        THEN [input_state |-> st.input_state,
              clipboard |-> "None", has_parse_error |-> FALSE, built |-> built,
              written |-> generate_xml(built.val),
              spawned |-> TRUE, clipboard_new |-> asked, set_text |-> set_text]
        ELSE [input_state |-> st.input_state,
              clipboard |-> cb,
              has_parse_error |-> IF built.ok THEN TRUE
                                  ELSE (st.has_parse_error \/ asked = "Err"),
              built |-> built, written |-> NoText, spawned |-> FALSE,
              clipboard_new |-> asked,
              set_text |-> IF built.ok /\ cb = "Some" THEN set_text ELSE NotAsked]

\* The Enter branch closing the window whether or not there is a clipboard.
HandleEnterWithoutClipboard(st, enter, mods, cb_new, set_text) ==
    LET cb == IF st.clipboard = "None" /\ cb_new = "Ok" THEN "Some" ELSE st.clipboard
        built == build_parsed_data(st.input_state)
        asked == IF st.clipboard = "None" THEN cb_new ELSE NotAsked
    IN  IF ~(enter /\ ~mods)
        THEN [input_state |-> st.input_state,
              clipboard |-> st.clipboard, has_parse_error |-> st.has_parse_error,
              built |-> NotBuilt, written |-> NoText, spawned |-> FALSE,
              clipboard_new |-> NotAsked, set_text |-> NotAsked]
        ELSE IF built.ok /\ (cb = "None" \/ set_text = "Ok")
        THEN [input_state |-> st.input_state,
              clipboard |-> "None", has_parse_error |-> FALSE, built |-> built,
              written |-> IF cb = "Some" THEN generate_xml(built.val) ELSE NoText,
              spawned |-> TRUE, clipboard_new |-> asked,
              set_text |-> IF cb = "Some" THEN set_text ELSE NotAsked]
        ELSE [input_state |-> st.input_state,
              clipboard |-> cb, has_parse_error |-> TRUE,
              built |-> built, written |-> NoText, spawned |-> FALSE,
              clipboard_new |-> asked,
              set_text |-> IF built.ok /\ cb = "Some" THEN set_text ELSE NotAsked]

\* The Enter branch storing the cleaned tag and the rows with a key back into
\* the input state.
HandleEnterStoringCleaned(st, enter, mods, cb_new, set_text) ==
    LET cb == IF st.clipboard = "None" /\ cb_new = "Ok" THEN "Some" ELSE st.clipboard
        built == build_parsed_data(st.input_state)
        asked == IF st.clipboard = "None" THEN cb_new ELSE NotAsked
        stored == [st.input_state EXCEPT
                      !.tag = clean_identifier(@),
                      !.attributes = SelectSeq(@, LAMBDA r : trim(r[1]) # <<>>)]
    IN  IF ~(enter /\ ~mods)
        THEN [input_state |-> st.input_state,
              clipboard |-> st.clipboard, has_parse_error |-> st.has_parse_error,
              built |-> NotBuilt, written |-> NoText, spawned |-> FALSE,
              clipboard_new |-> NotAsked, set_text |-> NotAsked]
        ELSE IF built.ok /\ cb = "Some" /\ set_text = "Ok"
        THEN [input_state |-> stored,
              clipboard |-> "None", has_parse_error |-> FALSE, built |-> built,
              written |-> generate_xml(built.val),
              spawned |-> TRUE, clipboard_new |-> asked, set_text |-> set_text]
        ELSE [input_state |-> stored,
              clipboard |-> cb, has_parse_error |-> TRUE,
              built |-> built, written |-> NoText, spawned |-> FALSE,
              clipboard_new |-> asked,
              set_text |-> IF built.ok /\ cb = "Some" THEN set_text ELSE NotAsked]

\* The Enter branch of the input closure (lines 193-246) on
\* st = [input_state, clipboard, has_parse_error]; cb_new and set_text are the
\* answers of arboard::Clipboard::new and Clipboard::set_text.  The result
\* names the input state the branch leaves (it only borrows it, line 210) and
\* the answers it consulted: Clipboard::new when there was no handle (line
\* 197), set_text when the build succeeded and there is a handle (line 217).
HandleEnter(st, enter, mods, cb_new, set_text) ==
    LET idle == [input_state |-> st.input_state,
                 clipboard |-> st.clipboard,
                 has_parse_error |-> st.has_parse_error,
                 built |-> NotBuilt, written |-> NoText, spawned |-> FALSE,
                 clipboard_new |-> NotAsked, set_text |-> NotAsked]
    IN  IF ~(enter /\ ~mods) THEN idle
        ELSE LET cb == IF st.clipboard = "None" /\ cb_new = "Ok"
                       THEN "Some" ELSE st.clipboard
                 built == build_parsed_data(st.input_state)
                 asked == IF st.clipboard = "None" THEN cb_new ELSE NotAsked
             IN  IF built.ok /\ cb = "Some" /\ set_text = "Ok"
                 THEN [input_state |-> st.input_state,
                       clipboard |-> "None", has_parse_error |-> FALSE,
                       built |-> built, written |-> generate_xml(built.val),
                       spawned |-> TRUE,
                       clipboard_new |-> asked, set_text |-> set_text]
                 ELSE [input_state |-> st.input_state,
                       clipboard |-> cb, has_parse_error |-> TRUE,
                       built |-> built, written |-> NoText, spawned |-> FALSE,
                       clipboard_new |-> asked,
                       set_text |-> IF built.ok /\ cb = "Some"
                                    THEN set_text ELSE NotAsked]

\* What the widgets can report in one frame, given the rows and the focus.
UiNone == [kind |-> "none", id |-> NoId, text |-> NoText, index |-> 0]

\* The model types a value only beside a key that build_parsed_data keeps: the
\* value of any other row is never read (lines 89-100).
RowTyped(key, value) == value = <<>> \/ clean_identifier(key) # <<>>

Edits(state, focused_id) ==
    IF focused_id = tag_field_id
    THEN {[kind |-> "edit", id |-> focused_id, text |-> t, index |-> 0] :
              t \in UiTagTexts \ {state.tag}}
    ELSE UNION {
           (IF focused_id = attr_key(i)
            THEN {[kind |-> "edit", id |-> focused_id, text |-> t, index |-> i] :
                      t \in {x \in UiKeyTexts \ {state.attributes[i + 1][1]} :
                                 RowTyped(x, state.attributes[i + 1][2])}}
            ELSE {})
           \cup
           (IF focused_id = attr_val(i)
            THEN {[kind |-> "edit", id |-> focused_id, text |-> t, index |-> i] :
                      t \in {x \in UiValTexts \ {state.attributes[i + 1][2]} :
                                 RowTyped(state.attributes[i + 1][1], x)}}
            ELSE {})
           : i \in 0..(Len(state.attributes) - 1) }

UiEvents(state, focused_id) ==
    {UiNone}
    \cup Edits(state, focused_id)
    \cup {[kind |-> "remove", id |-> NoId, text |-> NoText, index |-> i] :
              i \in 0..(Len(state.attributes) - 1)}
    \cup (IF Len(state.attributes) < MaxRows
          THEN {[kind |-> "add", id |-> NoId, text |-> NoText, index |-> 0]}
          ELSE {})
    \cup {[kind |-> "lost_focus", id |-> g, text |-> NoText, index |-> 0] :
              g \in {tag_field_id}
                    \cup (IF state.attributes = <<>> THEN {} ELSE {attr_key(0)})}
    \cup {[kind |-> "focus", id |-> g, text |-> NoText, index |-> 0] :
              g \in (TextFieldIds(state.attributes) \cup {NoId}) \ {focused_id}}

RemoveAt(rows, index) ==
    SubSeq(rows, 1, index) \o SubSeq(rows, index + 2, Len(rows))

\* The widget reports clearing the error flag with changed() left out.
interacted_without_changed(ui) == ui.kind \in {"add", "lost_focus"}

\* The widget reports clearing the error flag with every response counted.
interacted_by_any_response(ui) == ui.kind # "none"

\* The reports on which the drawing clears has_parse_error: a text field
\* changed() or lost_focus() (lines 285, 325-327), a click on X (lines
\* 319-322, 338-340), a click on "+ Add Attribute" (line 349).
interacted(ui) == ui.kind \in {"edit", "remove", "add", "lost_focus"}

\* The drawing of the widgets (lines 256-353) on
\* st = [input_state, has_parse_error, focused].
DrawWidgets(st, ui) ==
    LET rows == st.input_state.attributes
        error == IF interacted(ui) THEN FALSE ELSE st.has_parse_error
    IN  CASE ui.kind = "edit" /\ ui.id = tag_field_id ->
                 [input_state |-> [st.input_state EXCEPT !.tag = ui.text],
                  has_parse_error |-> error, focused |-> st.focused]
          [] ui.kind = "edit" /\ ui.id = attr_key(ui.index) ->
                 [input_state |-> [st.input_state EXCEPT
                                      !.attributes[ui.index + 1][1] = ui.text],
                  has_parse_error |-> error, focused |-> st.focused]
          [] ui.kind = "edit" /\ ui.id = attr_val(ui.index) ->
                 [input_state |-> [st.input_state EXCEPT
                                      !.attributes[ui.index + 1][2] = ui.text],
                  has_parse_error |-> error, focused |-> st.focused]
          [] ui.kind = "remove" ->
                 [input_state |-> [st.input_state EXCEPT
                                      !.attributes = RemoveAt(rows, ui.index)],
                  has_parse_error |-> error, focused |-> st.focused]
          [] ui.kind = "add" ->
                 [input_state |-> [st.input_state EXCEPT
                                      !.attributes = Append(rows, <<<<>>, <<>>>>)],
                  has_parse_error |-> error, focused |-> attr_key(Len(rows))]
          [] ui.kind = "lost_focus" ->
                 [input_state |-> st.input_state,
                  has_parse_error |-> error, focused |-> st.focused]
          [] ui.kind = "focus" ->
                 [input_state |-> st.input_state,
                  has_parse_error |-> error, focused |-> ui.id]
          [] OTHER ->
                 [input_state |-> st.input_state,
                  has_parse_error |-> error, focused |-> st.focused]

\* The frames' inputs: the keys pressed, whether a modifier is held, and what
\* the widgets report.  A frame in which Escape is pressed draws no widget; a
\* frame with a modifier held, or one in which the focus moves, is taken with
\* no other widget event and no key, the two being independent of each other.
FrameInputs(state, focused_id) ==
    LET keys == [esc : BOOLEAN, tab : BOOLEAN, enter : BOOLEAN, mods : BOOLEAN]
        pressed(k) == k.esc \/ k.tab \/ k.enter
        grown == [state EXCEPT !.attributes = Append(@, <<<<>>, <<>>>>)]
        events(k) ==
            IF k.esc \/ k.mods THEN {UiNone}
            ELSE {ui \in UiEvents(state, focused_id) \cup UiEvents(grown, focused_id) :
                      pressed(k) => ui.kind # "focus"}
    IN  UNION {{<<k, ui>> : ui \in events(k)} :
                   k \in {x \in keys : x.mods => pressed(x)}}

\* App::update (lines 128-397).
update(esc, tab, enter, mods, cb_new, set_text, ui) ==
    \E focused_id \in {IF focus_next_frame # NoId THEN focus_next_frame ELSE focused} :
    \E pending \in {IF should_focus_tag THEN tag_field_id ELSE NoId} :
    \E tabbed \in {HandleTab([attributes |-> input_state.attributes,
                              focus_next_frame |-> pending,
                              has_parse_error |-> has_parse_error],
                             focused_id, tab, mods)} :
    \E after_tab \in {[input_state EXCEPT !.attributes = tabbed.attributes]} :
    \E entered \in {HandleEnter([input_state |-> after_tab,
                                 clipboard |-> clipboard,
                                 has_parse_error |-> tabbed.has_parse_error],
                                enter, mods, cb_new, set_text)} :
    \E after_input \in {entered.input_state} :
    \E offered \in {esc \/ ui \in UiEvents(after_input, focused_id)} :
    \* Escape (lines 250-253) returns before the widgets are drawn.
    \E drawn \in {IF esc \/ ~offered
                  THEN [input_state |-> after_input,
                        has_parse_error |-> entered.has_parse_error,
                        focused |-> focused_id]
                  ELSE DrawWidgets([input_state |-> after_input,
                                    has_parse_error |-> entered.has_parse_error,
                                    focused |-> focused_id], ui)} :
        /\ Len(tabbed.attributes) <= MaxRows
        /\ entered.spawned => close_threads < MaxCloseThreads
        /\ offered
        /\ input_state' = drawn.input_state
        /\ has_parse_error' = drawn.has_parse_error
        /\ clipboard' = entered.clipboard
        /\ should_focus_tag' = FALSE
        /\ focus_next_frame' = tabbed.focus_next_frame
        /\ focused' = drawn.focused
        /\ close_threads' = close_threads + (IF entered.spawned THEN 1 ELSE 0)
        /\ viewport_closed' = esc
        /\ frame' = [n |-> 1,
                     esc |-> esc, tab |-> tab, enter |-> enter, mods |-> mods,
                     ui |-> ui,
                     focused_id |-> focused_id,
                     applied |-> focus_next_frame,
                     state_before |-> input_state,
                     error_before |-> has_parse_error,
                     pending_before |-> pending,
                     tab_added |-> tabbed.added,
                     state_at_enter |-> after_tab,
                     state_after_input |-> after_input,
                     clipboard_before |-> clipboard,
                     close_threads_before |-> close_threads,
                     clipboard_new |-> entered.clipboard_new,
                     set_text |-> entered.set_text,
                     pending_after |-> tabbed.focus_next_frame,
                     built |-> entered.built,
                     written |-> entered.written,
                     error_after_input |-> entered.has_parse_error,
                     commit |-> entered.spawned,
                     cancel |-> esc]
        /\ UNCHANGED call

Outcomes == {"Ok", "Err"}

\* One frame.  The clipboard's answers are drawn only where update asks for
\* them: Clipboard::new when Enter finds no handle, set_text when there is a
\* handle and the build succeeded.
Update ==
    /\ ~viewport_closed
    /\ frame = NoFrame
    /\ \E in \in FrameInputs(input_state,
                             IF focus_next_frame # NoId
                             THEN focus_next_frame ELSE focused) :
         \E cb_new \in (IF in[1].enter /\ ~in[1].mods /\ clipboard = "None"
                        THEN Outcomes ELSE {"Ok"}) :
           \E set_text \in (IF in[1].enter /\ ~in[1].mods
                               /\ (clipboard = "Some" \/ cb_new = "Ok")
                            THEN Outcomes ELSE {"Ok"}) :
               update(in[1].esc, in[1].tab, in[1].enter, in[1].mods,
                      cb_new, set_text, in[2])

\* update has returned: what the frame received and did is forgotten.
EndFrame ==
    /\ frame # NoFrame
    /\ frame' = NoFrame
    /\ UNCHANGED <<input_state, has_parse_error, clipboard, should_focus_tag,
                   focus_next_frame, focused, close_threads, viewport_closed,
                   call>>

\* The spawned thread clearing the error flag besides sending Close.
CloseThreadClearingError ==
    /\ close_threads > 0
    /\ close_threads' = close_threads - 1
    /\ viewport_closed' = TRUE
    /\ has_parse_error' = FALSE
    /\ UNCHANGED <<input_state, clipboard, should_focus_tag,
                   focus_next_frame, focused, frame, call>>

\* The thread spawned at line 227 sends ViewportCommand::Close.
CloseThread ==
    /\ close_threads > 0
    /\ close_threads' = close_threads - 1
    /\ viewport_closed' = TRUE
    /\ UNCHANGED <<input_state, has_parse_error, clipboard, should_focus_tag,
                   focus_next_frame, focused, frame, call>>

Init == AppNew /\ call = [fn |-> "none"]

Next == Update \/ EndFrame \/ CloseThread

Spec == Init /\ [][Next]_vars

\* A spawned thread (std::thread::spawn, line 227) is scheduled by the
\* operating system whatever update does: it is not kept waiting for ever.
SpecFair == Spec /\ WF_vars(CloseThread)

-----------------------------------------------------------------------------
(* clean_identifier applied to bounded inputs, and to its own result.      *)

MaxLen == 3

SanAlphabet == {"a", "1", " ", "\t", "_", "-", "!", "U+00E9"}

RECURSIVE StringsUpTo(_, _)
StringsUpTo(alphabet, n) ==
    IF n = 0 THEN {<<>>}
    ELSE LET shorter == StringsUpTo(alphabet, n - 1)
         IN  shorter \cup {Append(s, c) : s \in {t \in shorter : Len(t) = n - 1},
                                          c \in alphabet}

\* The inputs of the doc comment's examples (src/src/main.rs:56-59).
DocExamples ==
    { <<" ","m","y"," ","t","a","g"," ">>,
      <<"i","n","v","a","l","i","d","-","c","h","a","r","s","!","?">>,
      <<" "," ">>,
      <<" ","a"," ","b","-","c","_","d"," ">> }

SanInputs == StringsUpTo(SanAlphabet, MaxLen) \cup DocExamples

PureUnchanged ==
    UNCHANGED <<input_state, has_parse_error, clipboard, should_focus_tag,
                focus_next_frame, focused, close_threads, viewport_closed,
                frame>>

InitSanitize ==
    /\ AppNew
    /\ \E s \in SanInputs : call = [fn |-> "input", input |-> s]

CleanCall ==
    /\ call.fn = "input"
    /\ call' = [fn |-> "clean_identifier", input |-> call.input,
                arg |-> call.input, ret |-> clean_identifier(call.input)]
    /\ PureUnchanged

CleanAgain ==
    /\ call.fn = "clean_identifier"
    /\ call' = [fn |-> "clean_identifier_again", input |-> call.input,
                arg |-> call.ret, ret |-> clean_identifier(call.ret)]
    /\ PureUnchanged

NextSanitize == CleanCall \/ CleanAgain

SpecSanitize == InitSanitize /\ [][NextSanitize]_vars

-----------------------------------------------------------------------------
(* build_parsed_data and generate_xml applied to bounded InputStates.      *)

MaxBuildRows == 2

BuildTagTexts ==
    { <<>>, <<" ">>, <<"?","?","?">>, <<"d","i","v">>,
      <<" ","a"," ","b","!">>, <<"U+00E9">> }

BuildKeyTexts ==
    { <<>>, <<" ">>, <<"!","!","!">>, <<"k">>,
      <<" ","a","!"," ","b">>, <<"U+00E9">> }

BuildValTexts ==
    { <<>>, <<" ">>, <<"v">>, <<" ","a",QUOT,"&","<",">"," ">> }

RECURSIVE RowsUpTo(_, _, _)
RowsUpTo(keys, vals, n) ==
    IF n = 0 THEN {<<>>}
    ELSE LET shorter == RowsUpTo(keys, vals, n - 1)
         IN  shorter \cup {Append(rows, <<k, v>>) :
                               rows \in {r \in shorter : Len(r) = n - 1},
                               k \in keys, v \in vals}

\* The inputs of the documented examples: a dropped empty-key row between two
\* kept rows, and a row of blanks after a kept row.
BuildExamples ==
    { [tag |-> <<"d","i","v">>,
       attributes |-> << <<<<"k","e","y","1">>, <<"v","a","l","1">>>>,
                         <<<<>>, <<"i","g","n","o","r","e","d">>>>,
                         <<<<"f","l","a","g">>, <<>>>> >>],
      [tag |-> <<"I","m","g">>,
       attributes |-> << <<<<"s","r","c">>, <<"p","i","c",".","p","n","g">>>>,
                         <<<<" ">>, <<" ">>>> >>],
      [tag |-> <<"d","i","v">>,
       attributes |-> << <<<<"c","l","a","s","s">>, <<"a",QUOT,"b">>>>,
                         <<<<"d","i","s","a","b","l","e","d">>, <<>>>> >>] }

BuildInputs ==
    [tag : BuildTagTexts,
     attributes : RowsUpTo(BuildKeyTexts, BuildValTexts, MaxBuildRows)]
        \cup BuildExamples

InitBuild ==
    /\ input_state \in BuildInputs
    /\ has_parse_error = FALSE
    /\ clipboard = "None"
    /\ should_focus_tag = TRUE
    /\ focus_next_frame = NoId
    /\ focused = NoId
    /\ close_threads = 0
    /\ viewport_closed = FALSE
    /\ frame = NoFrame
    /\ call = [fn |-> "input"]

BuildCall ==
    /\ call.fn = "input"
    /\ call' = [fn |-> "build_parsed_data",
                ret |-> build_parsed_data(input_state)]
    /\ PureUnchanged

GenerateCall ==
    /\ call.fn = "build_parsed_data"
    /\ call.ret.ok
    /\ call' = [fn |-> "generate_xml", arg |-> call.ret.val,
                ret |-> generate_xml(call.ret.val)]
    /\ PureUnchanged

NextBuild == BuildCall \/ GenerateCall

SpecBuild == InitBuild /\ [][NextBuild]_vars

-----------------------------------------------------------------------------
(* The claims about App::update, checked under Spec on the frame just run. *)

InFrame == frame # NoFrame

EmptyRow == <<<<>>, <<>>>>

\* C1: a frame spawns the closing thread (commit) only if Enter was pressed
\* with no modifier, build_parsed_data succeeded on the frame's input state and
\* set_text succeeded; the text written is then generate_xml of the built data
\* and has_parse_error is clear.
C1_CommitOnlyAfterCopy ==
    (InFrame /\ frame.commit) =>
        /\ frame.enter /\ ~frame.mods
        /\ build_parsed_data(frame.state_before).ok
        /\ frame.built = build_parsed_data(frame.state_before)
        /\ frame.built = build_parsed_data(frame.state_at_enter)
        /\ frame.written # NoText
        /\ frame.written = generate_xml(frame.built.val)
        /\ ~frame.error_after_input
        /\ ~has_parse_error

C1_Witness ==
    /\ InFrame
    /\ frame.commit
    /\ frame.state_before = [tag |-> <<"t">>,
                             attributes |-> << <<<<"k">>, <<"v">>>>, EmptyRow >>]
    /\ frame.written = <<"<","t"," ","k","=",QUOT,"v",QUOT,">",NL,NL,"<","/","t",">">>

\* C2: a frame in which Escape is pressed sends Close (cancel) and does nothing
\* else: no row is appended, no build is attempted, nothing is written to the
\* clipboard, no commit is emitted and has_parse_error keeps its value.
C2_EscapeOnlyCancels ==
    (InFrame /\ frame.esc) =>
        /\ frame.cancel
        /\ ~frame.tab_added
        /\ input_state = frame.state_before
        /\ frame.built = NotBuilt
        /\ frame.written = NoText
        /\ ~frame.commit
        /\ has_parse_error = frame.error_before

\* C3: a Tab press with no modifier appends one empty row and requests the
\* focus for the new row's key field exactly when, as the frame starts, the tag
\* field is focused and there is no row, or the value field of the last row is
\* focused; otherwise it leaves the rows and the pending request alone.
C3_TabAddsRow ==
    (InFrame /\ frame.tab /\ ~frame.mods) =>
        LET rows == frame.state_before.attributes
            from_tag == frame.focused_id = tag_field_id /\ rows = <<>>
            from_last_value == rows # <<>> /\ frame.focused_id = attr_val(Len(rows) - 1)
        IN  IF from_tag \/ from_last_value
            THEN /\ frame.tab_added
                 /\ frame.state_at_enter.attributes = Append(rows, EmptyRow)
                 /\ frame.pending_after = attr_key(Len(rows))
            ELSE /\ ~frame.tab_added
                 /\ frame.state_at_enter.attributes = rows
                 /\ frame.pending_after = frame.pending_before

\* Tab from the value field of the only row.
C3_Witness ==
    /\ InFrame
    /\ frame.tab /\ ~frame.mods
    /\ frame.focused_id = attr_val(0)
    /\ Len(frame.state_before.attributes) = 1
    /\ Len(frame.state_at_enter.attributes) = 2
    /\ frame.pending_after = attr_key(1)
    /\ focus_next_frame = attr_key(1)

\* Tab from the value field of a row that is not the last: no row is added.
C3_NotLastReached ==
    /\ InFrame
    /\ frame.tab /\ ~frame.mods
    /\ frame.focused_id = attr_val(0)
    /\ Len(frame.state_before.attributes) = 2
    /\ ~frame.tab_added

EnterHandled == InFrame /\ frame.enter /\ ~frame.mods

BuildErrors == {EmptyTag, InvalidTagCharacters, InvalidAttributeKey}

\* C12: at the end of a frame in which a text field was edited or a row was
\* removed, has_parse_error is clear, whatever the frame's keys did before
\* and whether or not the new input state builds.
C12_EditClearsError ==
    (InFrame /\ frame.ui.kind \in {"edit", "remove"}) => ~has_parse_error

\* Enter set the flag and the edit of the same frame, to a text that does not
\* build, cleared it again.
C12_Witness ==
    /\ InFrame
    /\ frame.ui.kind = "edit"
    /\ frame.error_after_input
    /\ ~build_parsed_data(input_state).ok
    /\ ~has_parse_error

\* C13: when Enter is handled and build_parsed_data fails, with one of the
\* three errors, the Enter branch sets has_parse_error, which stays set to the
\* end of the frame unless a widget of the same frame clears it; set_text is
\* not called and nothing is written; no closing thread is spawned; Close is
\* sent only if Escape was pressed in the same frame.
C13_BuildErrorSetsFlag ==
    (EnterHandled /\ ~frame.built.ok) =>
        /\ frame.built = build_parsed_data(frame.state_at_enter)
        /\ frame.built.err \in BuildErrors
        /\ frame.error_after_input
        /\ (frame.esc \/ frame.ui.kind \in {"none", "focus"}) => has_parse_error
        /\ frame.set_text = NotAsked
        /\ frame.written = NoText
        /\ ~frame.commit
        /\ frame.close_threads_before = 0 => close_threads = 0
        /\ frame.cancel => frame.esc

\* Enter is refused again on the input it refused before: the flag was set
\* when the frame began and the input has not changed since.
C13_Witness ==
    /\ EnterHandled
    /\ ~frame.esc
    /\ frame.error_before
    /\ frame.state_before = [tag |-> <<"t">>,
                             attributes |-> << <<<<"!">>, <<>>>> >>]
    /\ frame.built = Err(InvalidAttributeKey)
    /\ has_parse_error
    /\ ~viewport_closed

\* C14: when Enter is handled and the build succeeds, Clipboard::new is asked
\* exactly when there is no handle; if it fails or set_text fails, the flag is
\* set, nothing is written and no closing thread is spawned; if every answer
\* asked for is Ok, whatever happened to earlier presses, the text is written
\* and the thread is spawned.  A frame that handles no Enter asks the
\* clipboard nothing.
C14_ClipboardFailureNoCommit ==
    /\ (EnterHandled /\ frame.built.ok) =>
          /\ (frame.clipboard_new # NotAsked) = (frame.clipboard_before = "None")
          /\ (frame.set_text # NotAsked) = (frame.clipboard_new # "Err")
          /\ IF frame.clipboard_new = "Err" \/ frame.set_text = "Err"
             THEN /\ frame.error_after_input
                  /\ ~frame.commit
                  /\ frame.written = NoText
                  /\ clipboard = (IF frame.set_text = "Err" THEN "Some" ELSE "None")
             ELSE /\ frame.commit
                  /\ frame.written = generate_xml(frame.built.val)
                  /\ ~frame.error_after_input
    /\ (InFrame /\ ~EnterHandled) =>
          /\ frame.clipboard_new = NotAsked
          /\ frame.set_text = NotAsked
          /\ frame.written = NoText
          /\ ~frame.commit
          /\ clipboard = frame.clipboard_before

\* Enter again on the input whose copy failed: the clipboard could not be
\* opened before, is opened again now, and the text is written.
C14_Witness ==
    /\ EnterHandled
    /\ frame.error_before
    /\ frame.state_before = [tag |-> <<"t">>, attributes |-> <<>>]
    /\ frame.clipboard_before = "None"
    /\ frame.clipboard_new = "Ok"
    /\ frame.set_text = "Ok"
    /\ frame.commit
    /\ frame.written = <<"<","t",">",NL,NL,"<","/","t",">">>

\* C15: a frame that adds a row, by Tab or by "+ Add Attribute", leaves the
\* request for the new key field in focus_next_frame and does not move the
\* focus itself.
C15_FocusRequestsDeferred ==
    InFrame =>
        /\ frame.tab_added =>
              /\ frame.pending_after =
                     attr_key(Len(frame.state_at_enter.attributes) - 1)
              /\ frame.ui.kind \notin {"add", "focus"} => focused = frame.focused_id
        /\ (frame.ui.kind = "add" /\ ~frame.esc) =>
              /\ focus_next_frame = attr_key(Len(input_state.attributes) - 1)
              /\ focused = frame.focused_id

\* C16: a frame that spawns the closing thread handles nothing after the
\* write (no widget changes the input state, the flag or the focus), and a
\* frame that begins with a closing thread already spawned changes neither
\* the input state nor the flag nor the clipboard and spawns no thread and
\* sends no Close.
C16_CommitAndCancelTerminal ==
    /\ (InFrame /\ frame.commit) =>
          /\ input_state = frame.state_after_input
          /\ has_parse_error = frame.error_after_input
          /\ focused = frame.focused_id
    /\ (InFrame /\ frame.close_threads_before > 0) =>
          /\ input_state = frame.state_before
          /\ has_parse_error = frame.error_before
          /\ clipboard = frame.clipboard_before
          /\ ~frame.commit
          /\ ~frame.cancel

\* C17: the frame that spawns the closing thread does not send Close itself
\* (only Escape, pressed in the same frame, does); the thread's step sends
\* Close and leaves input_state, has_parse_error, clipboard and the focus
\* requests as they are; and under weak fairness of the thread a spawned
\* thread leads to the viewport being closed, whatever frames run meanwhile.
C17_CloseSentByThread ==
    /\ [][(frame = NoFrame /\ frame' # NoFrame /\ frame'.commit) =>
              /\ close_threads' = close_threads + 1
              /\ viewport_closed' = frame'.esc]_vars
    /\ [][close_threads' < close_threads =>
              /\ viewport_closed'
              /\ UNCHANGED <<input_state, has_parse_error, clipboard,
                             should_focus_tag, focus_next_frame, focused>>]_vars
    /\ (close_threads > 0 ~> viewport_closed)

\* The thread has sent Close after a later frame changed the tag field.
C17_Witness ==
    /\ InFrame
    /\ frame.close_threads_before = 1
    /\ ~frame.commit /\ ~frame.esc
    /\ frame.ui.kind = "edit"
    /\ close_threads = 0
    /\ viewport_closed

\* C18: a frame in which a modifier is held with Escape, Tab or Enter sends no
\* Close, appends no row and attempts no build.
C18_ModifierDisablesKeys ==
    (InFrame /\ frame.mods /\ (frame.esc \/ frame.tab \/ frame.enter)) =>
        /\ ~frame.cancel
        /\ ~frame.tab_added
        /\ frame.built = NotBuilt

\* C19: the Enter branch leaves the input state it was given, and a frame in
\* which nothing but Enter acts ends with the input state it began with.
C19_EnterLeavesInput ==
    EnterHandled =>
        /\ frame.state_after_input = frame.state_at_enter
        /\ (~frame.tab_added
              /\ (frame.esc \/ frame.ui.kind \in {"none", "focus", "lost_focus"}))
           => input_state = frame.state_before

\* Enter on a tag with one named row and one empty row; set_text failed.
C19_Witness ==
    /\ EnterHandled
    /\ ~frame.tab_added
    /\ frame.ui = UiNone
    /\ frame.state_before = [tag |-> <<"t">>,
                             attributes |-> << <<<<"k">>, <<"v">>>>, EmptyRow >>]
    /\ frame.built.ok
    /\ frame.set_text = "Err"
    /\ input_state = frame.state_before

NoFlagEvent(kinds) ==
    /\ InFrame
    /\ ~(frame.enter /\ ~frame.mods)
    /\ ~frame.tab_added
    /\ frame.ui.kind \notin kinds

\* C20 as claimed: a frame with no handled Enter, no row added by Tab, no
\* edit, no manual addition and no removal leaves has_parse_error as it was.
C20_FlagChangesOnlyByEvents ==
    NoFlagEvent({"edit", "add", "remove"}) => has_parse_error = frame.error_before

\* C20: a frame with no handled Enter, no row added by Tab, no edit, no manual
\* addition, no removal and no text field losing the focus leaves
\* has_parse_error as it was; a text field that loses the focus clears it.
C20_FlagChangesByEventsOrLostFocus ==
    /\ NoFlagEvent({"edit", "add", "remove", "lost_focus"})
          => has_parse_error = frame.error_before
    /\ (InFrame /\ frame.ui.kind = "lost_focus") => ~has_parse_error

\* The focus moves to another field while the flag is set: it stays set.
C20_Witness ==
    /\ InFrame
    /\ frame.error_before
    /\ frame.ui.kind = "focus"
    /\ ~frame.tab /\ ~frame.enter /\ ~frame.esc
    /\ has_parse_error

\* A field only loses the focus while the flag is set: the flag is cleared.
C20_LostFocusReached ==
    /\ InFrame
    /\ frame.error_before
    /\ frame.ui.kind = "lost_focus"
    /\ ~frame.tab /\ ~frame.enter /\ ~frame.esc
    /\ ~has_parse_error

\* C21: the request that a frame takes from focus_next_frame and applies as
\* it starts names the tag field or the key field of a row that exists in the
\* input state the frame starts with.
C21_AppliedRequestNamesField ==
    (InFrame /\ frame.applied # NoId) =>
        \/ frame.applied = tag_field_id
        \/ \E i \in 0..(Len(frame.state_before.attributes) - 1) :
               frame.applied = attr_key(i)

\* The request of a Tab addition is applied to the row it added.
C21_TabRequestReached ==
    /\ InFrame
    /\ frame.applied = attr_key(0)
    /\ Len(frame.state_before.attributes) = 1
    /\ frame.focused_id = attr_key(0)

-----------------------------------------------------------------------------
(* The claims about clean_identifier, checked under SpecSanitize.          *)

Cleaned == call.fn \in {"clean_identifier", "clean_identifier_again"}

\* What position i of text contributes to the cleaned text, read off the text
\* alone: a character that is not whitespace stays when it is alphanumeric, "_"
\* or "-"; the first whitespace of a run standing between two segments becomes
\* "_"; everything else goes.
ContributionAt(text, i) ==
    IF ~is_whitespace(text[i])
    THEN IF is_alphanumeric(text[i]) \/ text[i] \in {"_", "-"}
         THEN <<text[i]>> ELSE <<>>
    ELSE IF /\ i > 1
            /\ ~is_whitespace(text[i - 1])
            /\ \E j \in (i + 1)..Len(text) : ~is_whitespace(text[j])
         THEN <<"_">> ELSE <<>>

RECURSIVE ContributionsFrom(_, _)
ContributionsFrom(text, i) ==
    IF i > Len(text) THEN <<>>
    ELSE ContributionAt(text, i) \o ContributionsFrom(text, i + 1)

InvalidCharsExample == <<"i","n","v","a","l","i","d","-","c","h","a","r","s","!","?">>

C10_SanitizeIdempotent ==
    call.fn = "clean_identifier_again" => call.ret = call.arg

C10_Witness ==
    /\ call.fn = "clean_identifier_again"
    /\ call.input = <<" ", "a", "!">>
    /\ call.arg = <<"a">>
    /\ call.ret = <<"a">>

\* C11: the doc comment's third example: clean_identifier of two spaces is "_".
C11_SpacesBecomeUnderscore ==
    (call.fn = "clean_identifier" /\ call.arg = <<" ", " ">>)
        => call.ret = <<"_">>

-----------------------------------------------------------------------------
(* The claims about build_parsed_data and generate_xml, under SpecBuild.   *)

Built == call.fn = "build_parsed_data"
BuiltOk == Built /\ call.ret.ok

Blank(text) == \A i \in 1..Len(text) : is_whitespace(text[i])

IdentifierOf(P(_), text) ==
    /\ text # <<>>
    /\ \A i \in 1..Len(text) : P(text[i])

UnicodeIdentChar(c) == is_alphanumeric(c) \/ c \in {"_", "-"}

\* C4 as amended: the tag and every key of a built ParsedData are non-empty
\* and hold only alphanumeric characters (in Unicode's sense), "_" and "-".
C4_IdentifiersAlphanumeric ==
    BuiltOk =>
        /\ IdentifierOf(UnicodeIdentChar, call.ret.val.tag)
        /\ \A i \in 1..Len(call.ret.val.attributes) :
               IdentifierOf(UnicodeIdentChar, call.ret.val.attributes[i][1])

\* C4 as claimed: the tag and every key of a built ParsedData are non-empty
\* and hold no character outside [A-Za-z0-9_-].
C4_IdentifiersAscii ==
    BuiltOk =>
        /\ IdentifierOf(AsciiIdentChar, call.ret.val.tag)
        /\ \A i \in 1..Len(call.ret.val.attributes) :
               IdentifierOf(AsciiIdentChar, call.ret.val.attributes[i][1])

C4_Witness ==
    /\ BuiltOk
    /\ input_state.tag = <<" ","a"," ","b","!">>
    /\ call.ret.val.tag = <<"a","_","b">>
    /\ Len(call.ret.val.attributes) = 2
    /\ call.ret.val.attributes[1][1] = <<"U+00E9">>

RECURSIVE ExpectedAttributes(_)
\* One entry per row whose key text is not blank, in row order.
ExpectedAttributes(rows) ==
    IF rows = <<>> THEN <<>>
    ELSE LET keyText == rows[1][1]
             valueText == rows[1][2]
         IN  (IF Blank(keyText) THEN <<>>
              ELSE << <<clean_identifier(keyText),
                        IF Blank(valueText) THEN None ELSE Some(trim(valueText))>> >>)
             \o ExpectedAttributes(Tail(rows))

\* C5: the attributes of a built ParsedData are, in row order, one entry per
\* row whose key text is not blank: the cleaned key with the trimmed value, or
\* with no value when the value text is blank.
C5_AttributesInRowOrder ==
    BuiltOk => call.ret.val.attributes = ExpectedAttributes(input_state.attributes)

\* A blank key with a value is dropped between two kept rows.
C5_Witness ==
    /\ BuiltOk
    /\ Len(input_state.attributes) = 3
    /\ Blank(input_state.attributes[2][1])
    /\ ~Blank(input_state.attributes[2][2])
    /\ Len(call.ret.val.attributes) = 2

\* C6: a blank tag text fails with EmptyTag and a tag text that is not blank
\* but cleans to nothing fails with InvalidTagCharacters, whatever the rows.
C6_TagDecidesFirst ==
    Built =>
        /\ Blank(input_state.tag) => call.ret = Err(EmptyTag)
        /\ (~Blank(input_state.tag) /\ clean_identifier(input_state.tag) = <<>>)
               => call.ret = Err(InvalidTagCharacters)

InvalidKeyRow(row) == ~Blank(row[1]) /\ clean_identifier(row[1]) = <<>>

C6_Witness ==
    /\ Built
    /\ call.ret = Err(InvalidTagCharacters)
    /\ Len(input_state.attributes) = 2
    /\ InvalidKeyRow(input_state.attributes[1])

\* C7: with a valid tag, the build fails with InvalidAttributeKey exactly when
\* some row's key text is not blank and cleans to nothing, and a failed build
\* returns no ParsedData.
C7_InvalidKeyFails ==
    (Built /\ clean_identifier(input_state.tag) # <<>>) =>
        /\ call.ret = Err(InvalidAttributeKey)
               <=> \E i \in 1..Len(input_state.attributes) :
                       InvalidKeyRow(input_state.attributes[i])
        /\ call.ret.ok <=> call.ret # Err(InvalidAttributeKey)
        /\ ~call.ret.ok => DOMAIN call.ret = {"ok", "err"}

\* The invalid key stands after a valid row.
C7_Witness ==
    /\ Built
    /\ call.ret = Err(InvalidAttributeKey)
    /\ Len(input_state.attributes) = 2
    /\ input_state.attributes[1][1] = <<"k">>
    /\ InvalidKeyRow(input_state.attributes[2])

EscapedChar(c) == IF c = QUOT THEN <<"&","q","u","o","t",";">> ELSE <<c>>

RECURSIVE Flatten(_)
Flatten(seqs) == IF seqs = <<>> THEN <<>> ELSE seqs[1] \o Flatten(Tail(seqs))

AttributeText(a) ==
    IF a[2] = None THEN <<" ">> \o a[1]
    ELSE <<" ">> \o a[1] \o <<"=", QUOT>>
         \o Flatten([i \in 1..Len(a[2][2]) |-> EscapedChar(a[2][2][i])])
         \o <<QUOT>>

\* C8: generate_xml(doc) is "<" tag attrs ">\n\n</" tag ">", attrs being, in
\* order, " key" for an attribute without a value and " key=\"v\"" for one with
\* a value v, every double quote of v replaced by &quot; and nothing else.
C8_SerializeFormat ==
    call.fn = "generate_xml" =>
        call.ret = <<"<">> \o call.arg.tag
                   \o Flatten([i \in 1..Len(call.arg.attributes) |->
                                   AttributeText(call.arg.attributes[i])])
                   \o <<">", NL, NL, "<", "/">> \o call.arg.tag \o <<">">>

C8_Witness ==
    /\ call.fn = "generate_xml"
    /\ call.arg.tag = <<"d","i","v">>
    /\ call.arg.attributes = << <<<<"k">>, Some(<<"a",QUOT,"&","<",">">>)>>,
                                <<<<"k">>, None>> >>
    /\ call.ret = <<"<","d","i","v"," ","k","=",QUOT,"a","&","q","u","o","t",";",
                    "&","<",">",QUOT," ","k",">",NL,NL,"<","/","d","i","v",">">>

====
